---------------------------- MODULE Spec2Model ----------------------------
(***************************************************************************)
(* AgriTrust AI: the scoring pipeline (api_simulation.py), the application *)
(* store (database.py), the authentication gate (auth.py) and the script   *)
(* run of the Streamlit page (app.py).                                     *)
(*                                                                         *)
(* Units.  A trust score is a decimal with one place and is kept in tenths *)
(* (76.9 is 769).  A probability is kept in units of 1/10000 (0.62 is      *)
(* 6200).  farm_size, rainfall and yield_amount are kept in tenths;        *)
(* soil_score and previous_loans are integers.  A timestamp has second     *)
(* precision and is kept as a number of seconds.  An optional value is a   *)
(* sequence of length 0 (absent, None) or 1.                               *)
(***************************************************************************)
EXTENDS Integers, Sequences, FiniteSets, TLC

(***************************************************************************)
(* Bounds of the model.                                                    *)
(***************************************************************************)
\* The most evaluations the page stores (Spec): Evaluate is disabled beyond.
MaxRecords == 2
\* The most rows inserted through database.py alone (SpecDatabase).
MaxRows == 3

None == << >>
Some(v) == << v >>

(***************************************************************************)
(* api_simulation.py                                                       *)
(***************************************************************************)
MODEL_VERSION == "1.3.0-agritrust"

RiskCategories == {"Low Risk", "Moderate Risk", "High Risk", "Very High Risk"}

\* The S-curve of predict, 100 / (1 + exp(-10 * (prob - 0.5))) rounded to one
\* decimal, evaluated at every hundredth of [0,1] and at the probabilities
\* around the tier edges: <<prob in 1/10000, trust_score in tenths>>.
SCurveTable ==
  << <<0, 7>>, <<100, 7>>, <<200, 8>>, <<300, 9>>, <<400, 10>>, <<500, 11>>,
     <<600, 12>>, <<700, 13>>, <<800, 15>>, <<900, 16>>, <<1000, 18>>,
     <<1100, 20>>, <<1200, 22>>, <<1300, 24>>, <<1400, 27>>, <<1500, 29>>,
     <<1600, 32>>, <<1700, 36>>, <<1800, 39>>, <<1900, 43>>, <<2000, 47>>,
     <<2100, 52>>, <<2200, 57>>, <<2300, 63>>, <<2400, 69>>, <<2500, 76>>,
     <<2600, 83>>, <<2700, 91>>, <<2800, 100>>, <<2900, 109>>, <<3000, 119>>,
     <<3100, 130>>, <<3200, 142>>, <<3300, 154>>, <<3400, 168>>, <<3500, 182>>,
     <<3600, 198>>, <<3700, 214>>, <<3800, 231>>, <<3900, 250>>, <<4000, 269>>,
     <<4100, 289>>, <<4146, 299>>, <<4151, 300>>, <<4200, 310>>, <<4300, 332>>,
     <<4400, 354>>, <<4500, 378>>, <<4600, 401>>, <<4700, 426>>, <<4800, 450>>,
     <<4900, 475>>, <<4995, 499>>, <<4999, 500>>, <<5000, 500>>, <<5003, 501>>,
     <<5100, 525>>, <<5200, 550>>, <<5300, 574>>, <<5400, 599>>, <<5500, 622>>,
     <<5600, 646>>, <<5700, 668>>, <<5800, 690>>, <<5841, 699>>, <<5846, 700>>,
     <<5900, 711>>, <<6000, 731>>, <<6100, 750>>, <<6200, 769>>, <<6300, 786>>,
     <<6400, 802>>, <<6500, 818>>, <<6600, 832>>, <<6700, 846>>, <<6800, 858>>,
     <<6900, 870>>, <<7000, 881>>, <<7100, 891>>, <<7200, 900>>, <<7300, 909>>,
     <<7400, 917>>, <<7500, 924>>, <<7600, 931>>, <<7700, 937>>, <<7800, 943>>,
     <<7900, 948>>, <<8000, 953>>, <<8100, 957>>, <<8200, 961>>, <<8300, 964>>,
     <<8400, 968>>, <<8500, 971>>, <<8600, 973>>, <<8700, 976>>, <<8800, 978>>,
     <<8900, 980>>, <<9000, 982>>, <<9100, 984>>, <<9200, 985>>, <<9300, 987>>,
     <<9400, 988>>, <<9500, 989>>, <<9600, 990>>, <<9700, 991>>, <<9800, 992>>,
     <<9900, 993>>, <<10000, 993>> >>

\* The probabilities the table covers.
ProbGrid == {SCurveTable[i][1] : i \in 1..Len(SCurveTable)}

\* The tangent of the S-curve at its centre, 50 + 250 * (prob - 0.5), in
\* place of the curve.
trust_score_of_tangent(prob) == 500 + (prob - 5000) \div 4

\* trust_score = round(100 / (1 + np.exp(-10 * (prob - 0.5))), 1)
trust_score_of(prob) ==
  LET i == CHOOSE j \in 1..Len(SCurveTable) : SCurveTable[j][1] = prob
  IN  SCurveTable[i][2]

_score_to_category_strict(score) ==
  IF score > 700 THEN "Low Risk"
  ELSE IF score > 500 THEN "Moderate Risk"
  ELSE IF score > 300 THEN "High Risk"
  ELSE "Very High Risk"

_score_to_category(score) ==
  IF score >= 700 THEN "Low Risk"
  ELSE IF score >= 500 THEN "Moderate Risk"
  ELSE IF score >= 300 THEN "High Risk"
  ELSE "Very High Risk"


\* The feature vector with each value brought into its declared range.
Features_clamped(r) ==
  LET clamp(v, lo, hi) == IF v < lo THEN lo ELSE IF v > hi THEN hi ELSE v
  IN  << clamp(r.farm_size, 1, 2000), clamp(r.soil_score, 0, 100),
         clamp(r.rainfall, 0, 30000), clamp(r.previous_loans, 0, 20),
         clamp(r.yield_amount, 1, 500) >>

\* X = np.array([[...]]): the five values of the request, in FEATURE_ORDER.
Features(r) ==
  << r.farm_size, r.soil_score, r.rainfall, r.previous_loans, r.yield_amount >>

\* The classifier artifact model/credit_model.pkl that train_model.py writes:
\* predict_proba is a fixed function of the feature vector.  The trained
\* trees are not part of the sources; the model keeps a classifier that
\* returns one probability per tier for the forms of FormInputs.
TrainedModel(X) ==
  CASE X = << 50, 65, 7500, 1, 35 >>    -> 6200
    [] X = << 20, 50, 6000, 2, 20 >>    -> 5000
    [] X = << 10, 30, 3000, 4, 10 >>    -> 4151
    [] OTHER                             -> 4146

PredictRequest(farm_size, soil_score, rainfall, previous_loans, yield_amount) ==
  [farm_size |-> farm_size, soil_score |-> soil_score, rainfall |-> rainfall,
   previous_loans |-> previous_loans, yield_amount |-> yield_amount]

\* A file at MODEL_PATH that joblib.load cannot unpickle.
Unreadable == [kind |-> "unreadable", prob |-> 0]

\* joblib.load(MODEL_PATH) raises: the file is missing or is no pickle.
LoadRaises(file) == file = None \/ file[1].kind = "unreadable"

\* _load_model that answers with a built-in classifier when the artifact
\* cannot be loaded.
_load_model_default(cache, file) ==
  IF cache # None THEN [raised |-> FALSE, cache |-> cache, reads |-> 0]
  ELSE IF LoadRaises(file)
  THEN [raised |-> FALSE,
        cache  |-> Some([kind |-> "constant", prob |-> 5000]), reads |-> 1]
  ELSE [raised |-> FALSE, cache |-> file, reads |-> 1]

\* _load_model without the hasattr test: joblib.load on every call.
_load_model_uncached(cache, file) ==
  IF LoadRaises(file) THEN [raised |-> TRUE, cache |-> cache, reads |-> 1]
  ELSE [raised |-> FALSE, cache |-> file, reads |-> 1]

\* _load_model: the cached attribute when there is one, else joblib.load,
\* which raises when the file is missing or unreadable and leaves the
\* attribute unset.  [raised, cache, reads]: reads counts the calls of
\* joblib.load.
_load_model(cache, file) ==
  IF cache # None THEN [raised |-> FALSE, cache |-> cache, reads |-> 0]
  ELSE IF LoadRaises(file) THEN [raised |-> TRUE, cache |-> cache, reads |-> 1]
  ELSE [raised |-> FALSE, cache |-> file, reads |-> 1]

\* predict, after the model is loaded: the response for the probability the
\* classifier returns.  latency_ms is a wall-clock reading and is left out.
predict_wrong_approved(prob) ==
  LET trust_score == trust_score_of(prob)
  IN  [trust_score   |-> trust_score,
       risk_category |-> _score_to_category(trust_score),
       approved      |-> trust_score > 500,
       model_version |-> MODEL_VERSION]

\* predict with the probability as a percentage for trust score: the S-curve
\* left out.
predict_response_unscaled(prob) ==
  LET trust_score == prob \div 10
  IN  [trust_score   |-> trust_score,
       risk_category |-> _score_to_category(trust_score),
       approved      |-> trust_score >= 500,
       model_version |-> MODEL_VERSION]

predict_response(prob) ==
  LET trust_score == trust_score_of(prob)
  IN  [trust_score   |-> trust_score,
       risk_category |-> _score_to_category(trust_score),
       approved      |-> trust_score >= 500,
       model_version |-> MODEL_VERSION]

\* model.predict_proba(X)[0][1] of the loaded classifier: the trained
\* artifact, or a classifier that answers prob for every request.
predict_proba(classifier, X) ==
  IF classifier.kind = "trained" THEN TrainedModel(X) ELSE classifier.prob

predict(classifier, request) ==
  predict_response(predict_proba(classifier, Features(request)))

\* predict(request) from its first line, in a process whose
\* _load_model._model is cache and whose artifact is file.  [raised, cache,
\* reads, X, response]: whether it raised, the attribute as the call leaves
\* it, the calls of joblib.load, the array handed to predict_proba and the
\* PredictResponse returned (None when it raised).
predict_request(cache, file, request) ==
  LET loaded == _load_model(cache, file)
  IN  IF loaded.raised
      THEN [raised |-> TRUE, cache |-> loaded.cache, reads |-> loaded.reads,
            X |-> None, response |-> None]
      ELSE [raised |-> FALSE, cache |-> loaded.cache, reads |-> loaded.reads,
            X |-> Some(Features(request)),
            response |-> Some(predict(loaded.cache[1], request))]

(***************************************************************************)
(* database.py                                                             *)
(***************************************************************************)
\* The database file: the tables it holds, the rows of applications in rowid
\* order, and sqlite_sequence (the largest id AUTOINCREMENT has handed out).
EmptyDb == [tables |-> {}, applications |-> << >>, sqlite_sequence |-> 0]

\* init_db as DROP TABLE + CREATE TABLE: the rows are lost.
init_db_recreate(db) ==
  [db     |-> [db EXCEPT !.tables = @ \cup {"applications"},
                         !.applications = << >>],
   raised |-> FALSE]

\* init_db as CREATE TABLE without IF NOT EXISTS: "table applications
\* already exists" when it does.
init_db_create(db) ==
  IF "applications" \in db.tables THEN [db |-> db, raised |-> TRUE]
  ELSE [db |-> [db EXCEPT !.tables = @ \cup {"applications"}],
        raised |-> FALSE]

\* CREATE TABLE IF NOT EXISTS applications (...).  [db, raised]: the
\* database as the call leaves it, and whether the statement raised.
init_db(db) ==
  IF "applications" \in db.tables THEN [db |-> db, raised |-> FALSE]
  ELSE [db |-> [db EXCEPT !.tables = @ \cup {"applications"}],
        raised |-> FALSE]

\* The clock counts ticks; strftime("%Y-%m-%d %H:%M:%S") keeps whole seconds.
TicksPerSecond == 2

strftime(now) == now \div TicksPerSecond

\* The time between two readings of the clock: a tick, or a whole second.
Elapsed == {1, TicksPerSecond}

MaxOf(S) == IF S = {} THEN 0 ELSE CHOOSE m \in S : \A x \in S : x <= m

\* insert_application with trust_score and soil_score bound to each other's
\* column.
insert_application_swapped(db, applicant_name, farm_size, soil_score, rainfall, previous_loans, yield_amount, trust_score, risk_category, officer_id, now, fault) ==
  LET id  == db.sqlite_sequence + 1
      row == [id |-> id, applicant_name |-> applicant_name,
              farm_size |-> farm_size, soil_score |-> trust_score,
              rainfall |-> rainfall, previous_loans |-> previous_loans,
              yield_amount |-> yield_amount, trust_score |-> soil_score,
              risk_category |-> risk_category, officer_id |-> officer_id,
              timestamp |-> strftime(now)]
  IN  IF fault = "none"
      THEN [db |-> [db EXCEPT !.applications = Append(@, row),
                              !.sqlite_sequence = id],
            raised |-> FALSE, lastrowid |-> Some(id)]
      ELSE [db |-> db, raised |-> TRUE, lastrowid |-> None]

\* insert_application as INSERT OR REPLACE with a fixed id: the new row takes
\* the place of the last one.
insert_application_replace(db, applicant_name, farm_size, soil_score, rainfall, previous_loans, yield_amount, trust_score, risk_category, officer_id, now, fault) ==
  LET row == [id |-> 1, applicant_name |-> applicant_name,
              farm_size |-> farm_size, soil_score |-> soil_score,
              rainfall |-> rainfall, previous_loans |-> previous_loans,
              yield_amount |-> yield_amount, trust_score |-> trust_score,
              risk_category |-> risk_category, officer_id |-> officer_id,
              timestamp |-> strftime(now)]
  IN  IF fault = "none"
      THEN [db |-> [db EXCEPT !.applications = << row >>,
                              !.sqlite_sequence = 1],
            raised |-> FALSE, lastrowid |-> Some(1)]
      ELSE [db |-> db, raised |-> TRUE, lastrowid |-> None]

\* insert_application whose id column is not AUTOINCREMENT's: every record
\* gets the id the table handed out last.
insert_application_same_id(db, applicant_name, farm_size, soil_score, rainfall, previous_loans, yield_amount, trust_score, risk_category, officer_id, now, fault) ==
  LET id  == MaxOf({db.sqlite_sequence, 1})
      row == [id |-> id, applicant_name |-> applicant_name,
              farm_size |-> farm_size, soil_score |-> soil_score,
              rainfall |-> rainfall, previous_loans |-> previous_loans,
              yield_amount |-> yield_amount, trust_score |-> trust_score,
              risk_category |-> risk_category, officer_id |-> officer_id,
              timestamp |-> strftime(now)]
  IN  IF fault = "none"
      THEN [db |-> [db EXCEPT !.applications = Append(@, row),
                              !.sqlite_sequence = id],
            raised |-> FALSE, lastrowid |-> Some(id)]
      ELSE [db |-> db, raised |-> TRUE, lastrowid |-> None]

\* insert_application on a connection in autocommit mode and without the
\* rollback of `with conn`: what conn.execute wrote stays when conn.commit
\* raises.
insert_application_no_rollback(db, applicant_name, farm_size, soil_score, rainfall, previous_loans, yield_amount, trust_score, risk_category, officer_id, now, fault) ==
  LET id  == MaxOf({db.applications[i].id : i \in DOMAIN db.applications}
                   \cup {db.sqlite_sequence}) + 1
      row == [id |-> id, applicant_name |-> applicant_name,
              farm_size |-> farm_size, soil_score |-> soil_score,
              rainfall |-> rainfall, previous_loans |-> previous_loans,
              yield_amount |-> yield_amount, trust_score |-> trust_score,
              risk_category |-> risk_category, officer_id |-> officer_id,
              timestamp |-> strftime(now)]
      written == [db EXCEPT !.applications = Append(@, row),
                            !.sqlite_sequence = id]
  IN  IF fault = "none"
      THEN [db |-> written, raised |-> FALSE, lastrowid |-> Some(id)]
      ELSE IF fault = "commit"
           THEN [db |-> written, raised |-> TRUE, lastrowid |-> None]
           ELSE [db |-> db, raised |-> TRUE, lastrowid |-> None]

\* What the storage does during a call: nothing wrong, or sqlite3.connect,
\* conn.execute or conn.commit raises (the file cannot be opened, the
\* database is locked, the disk fails).
StorageFaults == {"none", "connect", "execute", "commit"}

\* INSERT INTO applications ...; the id is AUTOINCREMENT's: one more than the
\* largest id ever used.  The INSERT runs in the transaction the connection
\* opens for it; conn.commit() publishes it, and `with conn` rolls it back
\* when its body raises.  [db, raised, lastrowid]: the database as the call
\* leaves it, whether it raised, and the value returned.
insert_application(db, applicant_name, farm_size, soil_score, rainfall, previous_loans, yield_amount, trust_score, risk_category, officer_id, now, fault) ==
  LET ts  == strftime(now)
      ids == {db.applications[i].id : i \in DOMAIN db.applications}
      id  == MaxOf(ids \cup {db.sqlite_sequence}) + 1
      row == [id |-> id, applicant_name |-> applicant_name,
              farm_size |-> farm_size, soil_score |-> soil_score,
              rainfall |-> rainfall, previous_loans |-> previous_loans,
              yield_amount |-> yield_amount, trust_score |-> trust_score,
              risk_category |-> risk_category, officer_id |-> officer_id,
              timestamp |-> ts]
      \* the connection's transaction after conn.execute
      written == [db EXCEPT !.applications = Append(@, row),
                            !.sqlite_sequence = id]
  IN  IF fault = "none"
      THEN [db |-> written, raised |-> FALSE, lastrowid |-> Some(id)]
      ELSE [db |-> db, raised |-> TRUE, lastrowid |-> None]

\* ORDER BY timestamp DESC: SQLite's sorter keeps rows of equal timestamp in
\* the order of the scan, which is rowid order.
RECURSIVE InsertDesc(_, _)
InsertDesc(sorted, r) ==
  IF sorted = << >> THEN << r >>
  ELSE IF Head(sorted).timestamp >= r.timestamp
       THEN << Head(sorted) >> \o InsertDesc(Tail(sorted), r)
       ELSE << r >> \o sorted

\* The rows as scanned: the ORDER BY clause left out.
OrderByNothing(rows) == rows

RECURSIVE OrderByTimestampDesc(_)
OrderByTimestampDesc(rows) ==
  IF rows = << >> THEN << >>
  ELSE InsertDesc(OrderByTimestampDesc(SubSeq(rows, 1, Len(rows) - 1)),
                  rows[Len(rows)])

\* WHERE risk_category = ?
RECURSIVE WhereRiskCategory(_, _)
WhereRiskCategory(rows, c) ==
  IF rows = << >> THEN << >>
  ELSE IF Head(rows).risk_category = c
       THEN << Head(rows) >> \o WhereRiskCategory(Tail(rows), c)
       ELSE WhereRiskCategory(Tail(rows), c)

\* fetch_all_applications without its WHERE clause.
fetch_all_applications_unfiltered(db, risk_filter) ==
  [db |-> db, rows |-> OrderByTimestampDesc(db.applications)]

\* fetch_all_applications that removes from the table what it returns.
fetch_all_applications_consuming(db, risk_filter) ==
  [db   |-> [db EXCEPT !.applications = << >>],
   rows |-> OrderByTimestampDesc(db.applications)]

\* [db, rows]: the database as the call leaves it, and the list returned
fetch_all_applications(db, risk_filter) ==
  [db   |-> db,
   rows |-> IF risk_filter = "All"
            THEN OrderByTimestampDesc(db.applications)
            ELSE OrderByTimestampDesc(
                   WhereRiskCategory(db.applications, risk_filter))]

RECURSIVE SumTrustScore(_)
SumTrustScore(rows) ==
  IF rows = << >> THEN 0
  ELSE Head(rows).trust_score + SumTrustScore(Tail(rows))

\* round(avg, 1) of the double sum / n, in tenths.  A mean that lies exactly
\* between two tenths is not a double in general: the side the double falls
\* on depends on its binary representation (72.45 rounds to 72.5, 53.55 to
\* 53.5), which tie_up stands for.
\* int(avg * 10) / 10: the mean cut to one decimal.
round1_truncated(sum, n, tie_up) == sum \div n

round1(sum, n, tie_up) ==
  LET q  == sum \div n
      r2 == 2 * (sum % n)
  IN  IF r2 < n THEN q
      ELSE IF r2 > n THEN q + 1
      ELSE IF tie_up THEN q + 1 ELSE q

CountWhere(rows, cats) ==
  Cardinality({i \in DOMAIN rows : rows[i].risk_category \in cats})

\* get_summary_stats whose approved counts 'Low Risk' alone.
get_summary_stats_low_only(db, tie_up) ==
  LET rows     == db.applications
      total    == Len(rows)
      approved == CountWhere(rows, {"Low Risk"})
      dist     == {rows[i].risk_category : i \in DOMAIN rows}
  IN  [db    |-> db,
       stats |-> [total        |-> total,
                  approved     |-> approved,
                  rejected     |-> total - approved,
                  avg_score    |-> IF total # 0 /\ SumTrustScore(rows) # 0
                                   THEN round1(SumTrustScore(rows), total,
                                               tie_up)
                                   ELSE 0,
                  distribution |-> [c \in dist |-> CountWhere(rows, {c})]]]

\* [db, stats]: the database as the call leaves it, and the dict returned
get_summary_stats(db, tie_up) ==
  LET rows     == db.applications
      total    == Len(rows)
      approved == CountWhere(rows, {"Low Risk", "Moderate Risk"})
      \* SELECT AVG(trust_score): NULL over no rows
      avg_score == IF total = 0 THEN None ELSE Some(SumTrustScore(rows))
      dist     == {rows[i].risk_category : i \in DOMAIN rows}
  IN  [db    |-> db,
       stats |-> [total        |-> total,
                  approved     |-> approved,
                  rejected     |-> total - approved,
                  avg_score    |-> IF avg_score # None /\ avg_score[1] # 0
                                   THEN round1(avg_score[1], total, tie_up)
                                   ELSE 0,
                  distribution |-> [c \in dist |-> CountWhere(rows, {c})]]]

(***************************************************************************)
(* auth.py.  A user name is a sequence of characters.                      *)
(***************************************************************************)
UpperCase == << "A", "B", "C", "D", "E", "F", "G", "H", "I", "J", "K", "L", "M",
                "N", "O", "P", "Q", "R", "S", "T", "U", "V", "W", "X", "Y", "Z" >>
LowerCase == << "a", "b", "c", "d", "e", "f", "g", "h", "i", "j", "k", "l", "m",
                "n", "o", "p", "q", "r", "s", "t", "u", "v", "w", "x", "y", "z" >>
Whitespace == {" ", "\t", "\n", "\r"}

\* str.lower()
lower(s) ==
  [i \in DOMAIN s |->
     IF \E k \in DOMAIN UpperCase : UpperCase[k] = s[i]
     THEN LowerCase[CHOOSE k \in DOMAIN UpperCase : UpperCase[k] = s[i]]
     ELSE s[i]]

\* str.strip()
RECURSIVE lstrip(_)
lstrip(s) ==
  IF s # << >> /\ Head(s) \in Whitespace THEN lstrip(Tail(s)) ELSE s

RECURSIVE rstrip(_)
rstrip(s) ==
  IF s # << >> /\ s[Len(s)] \in Whitespace
  THEN rstrip(SubSeq(s, 1, Len(s) - 1)) ELSE s

strip(s) == rstrip(lstrip(s))

USERS ==
  (<< "a", "d", "m", "i", "n" >> :>
     [password |-> "admin123", role |-> "Admin", display |-> "Dr. Rajan Mehta"])
  @@ (<< "o", "f", "f", "i", "c", "e", "r" >> :>
     [password |-> "officer123", role |-> "Loan Officer", display |-> "Ms. Priya Sharma"])
  @@ (<< "d", "e", "m", "o" >> :>
     [password |-> "demo", role |-> "Loan Officer", display |-> "Demo User"])
  @@ (<< "r", "a", "h", "u", "l" >> :>
     [password |-> "93477", role |-> "farmerr", display |-> "rahul"])
  @@ (<< "v", "i", "g", "n", "e", "s", "h" >> :>
     [password |-> "93477", role |-> "devlop+er", display |-> "vignesh"])

\* dict.get(key): None when the key is absent
Get(d, key) == IF key \in DOMAIN d THEN Some(d[key]) ELSE None

\* check_credentials that lets a known user in whatever the password.
check_credentials_name_only(users, username, password) ==
  [users |-> users, user |-> Get(users, strip(lower(username)))]

\* [users, user]: the USERS dictionary as the call leaves it, and the value
\* returned.
check_credentials(users, username, password) ==
  LET user == Get(users, strip(lower(username)))
  IN  [users |-> users,
       user  |-> IF user # None /\ user[1].password = password
                 THEN user ELSE None]

\* A logout that resets the flag and leaves the user in the session.
Pop_flag_only(d, keys) == [k \in DOMAIN d \ {"authenticated"} |-> d[k]]

\* st.session_state: a dictionary; pop(key, None) drops a key.
Pop(d, keys) == [k \in DOMAIN d \ keys |-> d[k]]

\* d[key] = value for each key of `new`
Set(d, new) == new @@ d

(***************************************************************************)
(* app.py: one script run per user event.                                  *)
(***************************************************************************)
VARIABLES
  db,             \* data/agritrust.db
  session_state,  \* st.session_state of the browser session
  model_file,     \* model/credit_model.pkl: None, or the classifier it holds
  _model,         \* _load_model._model: None until the first load
  now,            \* the wall clock when datetime.now() last read it, in ticks
  tie_up,         \* the side a mean half-way between two tenths rounds to
  users,          \* auth.USERS, the dictionary of the process
  conns,          \* per session: the insert_application call it is in
  reserved,       \* the session whose connection holds SQLite's write lock
  page,           \* what the last script run rendered
  n_inserted,     \* the number of insert_application calls that returned
  probe           \* the last call of a pure function: None, or [op, in, out]

vars == << db, session_state, model_file, _model, now, tie_up, users, conns,
           reserved, page, n_inserted, probe >>

\* The sessions (threads of the Streamlit server) that may be inside
\* insert_application at the same time.
Sessions == {"A", "B"}

\* A session outside insert_application.  pc is the line the call is at,
\* clock the reading of datetime.now(), txn what conn.execute has written in
\* the connection's transaction, out the value returned, calls and done the
\* calls made and the calls that returned.
IdleConn ==
  [pc |-> "idle", clock |-> 0, txn |-> None, out |-> None, calls |-> 0,
   done |-> 0]

IdleConns == [s \in Sessions |-> IdleConn]

Str_admin_typed == << " ", "A", "d", "m", "i", "n" >>
Str_officer     == << "o", "f", "f", "i", "c", "e", "r" >>
Str_guest       == << "g", "u", "e", "s", "t" >>
Str_system      == << "s", "y", "s", "t", "e", "m" >>

\* What a user types into the login form.
TypedUsernames == {Str_admin_typed, Str_officer, Str_guest}
TypedPasswords == {"admin123", "officer123", ""}

\* What an officer enters into the form of the scoring tab, within the
\* ranges of its widgets.
FormInputs ==
  { [applicant_name |-> "Ramesh", farm_size |-> 50, soil_score |-> 65,
     rainfall |-> 7500, previous_loans |-> 1, yield_amount |-> 35],
    [applicant_name |-> "", farm_size |-> 20, soil_score |-> 50,
     rainfall |-> 6000, previous_loans |-> 2, yield_amount |-> 20],
    [applicant_name |-> "Sita", farm_size |-> 10, soil_score |-> 30,
     rainfall |-> 3000, previous_loans |-> 4, yield_amount |-> 10],
    [applicant_name |-> "Ravi", farm_size |-> 1, soil_score |-> 0,
     rainfall |-> 500, previous_loans |-> 20, yield_amount |-> 1] }

Filters == {"All"} \cup RiskCategories

Trained == [kind |-> "trained", prob |-> 0]

BlankPage ==
  [screen |-> "none", login_error |-> FALSE, result |-> None,
   explain |-> None, csv |-> None, stats |-> None, recent |-> None,
   history |-> None]

\* login_ui without a sign-in, then st.stop()
LoginPage(error) == [BlankPage EXCEPT !.screen = "login", !.login_error = error]

\* The outcome of a script run.
Outcome(d, ss, cache, pg, inserted) ==
  [db |-> d, session_state |-> ss, cache |-> cache, page |-> pg,
   inserted |-> inserted]

\* The tabs below the evaluate handler: explainability and the CSV export of
\* the scoring tab, then the admin panel and the history for an Admin.
Tabs(d, ss, cache, result, inserted, risk_filter) ==
  LET user    == ss["user"]
      csv     == fetch_all_applications(d, "All")
      d1      == IF "last_result" \in DOMAIN ss THEN csv.db ELSE d
      summary == get_summary_stats(d1, tie_up)
      recent  == fetch_all_applications(summary.db, "All")
      history == fetch_all_applications(recent.db, risk_filter)
      admin   == user.role = "Admin"
  IN  Outcome(IF admin THEN history.db ELSE d1, ss, cache,
              [screen      |-> "app",
               login_error |-> FALSE,
               result      |-> result,
               \* explainability and the PDF report of last_result
               explain     |-> Get(ss, "last_result"),
               csv         |-> IF "last_result" \in DOMAIN ss
                               THEN Some(csv.rows) ELSE None,
               stats       |-> IF admin THEN Some(summary.stats) ELSE None,
               recent      |-> IF admin THEN Some(recent.rows) ELSE None,
               history     |-> IF admin
                               THEN Some([filter |-> risk_filter,
                                          rows   |-> history.rows])
                               ELSE None],
              inserted)

\* The evaluate handler with the record written before the score exists:
\* insert_application with a placeholder score, then predict.
EvaluateHandler_insert_first(d, ss, cache, form, clock, risk_filter, fault) ==
  LET req    == PredictRequest(form.farm_size, form.soil_score, form.rainfall,
                               form.previous_loans, form.yield_amount)
      name   == IF form.applicant_name = "" THEN "Anonymous"
                ELSE form.applicant_name
      uname  == Get(ss, "username")
      ins    == insert_application(d, name, form.farm_size, form.soil_score, form.rainfall, form.previous_loans, form.yield_amount, 0, "Very High Risk", IF uname = None THEN Str_system ELSE uname[1], clock, fault)
      loaded == predict_request(cache, model_file, req)
      result == loaded.response[1]
      last   == [name |-> form.applicant_name, farm_size |-> form.farm_size,
                 soil_score |-> form.soil_score, rainfall |-> form.rainfall,
                 previous_loans |-> form.previous_loans,
                 yield_amount |-> form.yield_amount,
                 trust_score |-> result.trust_score,
                 risk_category |-> result.risk_category]
  IN  IF ins.raised
      THEN Outcome(ins.db, ss, cache,
                   [BlankPage EXCEPT !.screen = "exception"], 0)
      ELSE IF loaded.raised
      THEN Outcome(ins.db, ss, loaded.cache,
                   [BlankPage EXCEPT !.screen = "exception"], 1)
      ELSE Tabs(ins.db, Set(ss, [last_result |-> last]), loaded.cache,
                Some(result), 1, risk_filter)

\* if evaluate: predict, insert_application, session_state["last_result"]
EvaluateHandler(d, ss, cache, form, clock, risk_filter, fault) ==
  LET req    == PredictRequest(form.farm_size, form.soil_score, form.rainfall,
                               form.previous_loans, form.yield_amount)
      loaded == predict_request(cache, model_file, req)
      result == loaded.response[1]
      name   == IF form.applicant_name = "" THEN "Anonymous"
                ELSE form.applicant_name
      uname  == Get(ss, "username")
      ins    == insert_application(d, name, form.farm_size, form.soil_score, form.rainfall, form.previous_loans, form.yield_amount, result.trust_score, result.risk_category, IF uname = None THEN Str_system ELSE uname[1], clock, fault)
      last   == [name |-> form.applicant_name, farm_size |-> form.farm_size,
                 soil_score |-> form.soil_score, rainfall |-> form.rainfall,
                 previous_loans |-> form.previous_loans,
                 yield_amount |-> form.yield_amount,
                 trust_score |-> result.trust_score,
                 risk_category |-> result.risk_category]
  IN  IF loaded.raised
      THEN \* the exception ends the script run
           Outcome(d, ss, loaded.cache,
                   [BlankPage EXCEPT !.screen = "exception"], 0)
      ELSE IF ins.raised
      THEN \* so does the one of insert_application, after predict
           Outcome(ins.db, ss, loaded.cache,
                   [BlankPage EXCEPT !.screen = "exception"], 0)
      ELSE Tabs(ins.db, Set(ss, [last_result |-> last]), loaded.cache,
                Some(result), 1, risk_filter)

Authenticated(ss) ==
  "authenticated" \in DOMAIN ss /\ ss["authenticated"] = TRUE

\* The script with require_auth called after the evaluate handler instead
\* of before it: a press of the evaluate button is served, then the login
\* screen is shown.
ScriptRun_handler_first(ev, risk_filter, clock) ==
  LET d0 == init_db(db).db
      ss == session_state
      req    == PredictRequest(ev.form.farm_size, ev.form.soil_score, ev.form.rainfall, ev.form.previous_loans, ev.form.yield_amount)
      called == predict_request(_model, model_file, req)
      ins    == insert_application(d0, "Anonymous", ev.form.farm_size, ev.form.soil_score, ev.form.rainfall, ev.form.previous_loans, ev.form.yield_amount, called.response[1].trust_score, called.response[1].risk_category, Str_system, clock, ev.fault)
  IN  IF ~Authenticated(ss)
      THEN IF ev.kind = "sign_in"
           THEN LET user == check_credentials(users, ev.username,
                                              ev.password).user
                IN  IF user # None
                    THEN Tabs(init_db(d0).db,
                              Set(ss, [authenticated |-> TRUE,
                                       user          |-> user[1],
                                       username      |-> ev.username]),
                              _model, None, 0, "All")
                    ELSE Outcome(d0, ss, _model, LoginPage(TRUE), 0)
           ELSE IF ev.kind = "evaluate" /\ ~called.raised /\ ~ins.raised
                THEN Outcome(ins.db, ss, called.cache, LoginPage(FALSE), 1)
                ELSE Outcome(d0, ss, _model, LoginPage(FALSE), 0)
      ELSE IF ev.kind = "sign_out"
           THEN Outcome(init_db(d0).db,
                        Pop(ss, {"authenticated", "user", "username"}),
                        _model, LoginPage(FALSE), 0)
           ELSE IF ev.kind = "evaluate"
                THEN EvaluateHandler(d0, ss, _model, ev.form, clock,
                                     risk_filter, ev.fault)
                ELSE Tabs(d0, ss, _model, None, 0, risk_filter)

\* A script run from the top: init_db, require_auth, the sidebar, the tabs.
\* ev is the widget event that started it; risk_filter is the selection of
\* the history tab.  st.rerun() starts the script again without an event.
ScriptRun(ev, risk_filter, clock) ==
  LET booted == init_db(db)
      d0 == booted.db
      ss == session_state
  IN  IF booted.raised
      THEN \* the exception ends the script run before the gate
           Outcome(d0, ss, _model, [BlankPage EXCEPT !.screen = "exception"],
                   0)
      ELSE IF ~Authenticated(ss)
      THEN IF ev.kind = "sign_in"
           THEN LET user == check_credentials(users, ev.username,
                                              ev.password).user
                IN  IF user # None
                    THEN Tabs(init_db(d0).db,
                              Set(ss, [authenticated |-> TRUE,
                                       user          |-> user[1],
                                       username      |-> ev.username]),
                              _model, None, 0, "All")
                    ELSE Outcome(d0, ss, _model, LoginPage(TRUE), 0)
           ELSE Outcome(d0, ss, _model, LoginPage(FALSE), 0)
      ELSE IF ev.kind = "sign_out"
           THEN \* logout, then the rerun stops at the login screen
                Outcome(init_db(d0).db,
                        Pop(ss, {"authenticated", "user", "username"}),
                        _model, LoginPage(FALSE), 0)
           ELSE IF ev.kind = "evaluate"
                THEN EvaluateHandler(d0, ss, _model, ev.form, clock,
                                     risk_filter, ev.fault)
                ELSE Tabs(d0, ss, _model, None, 0, risk_filter)

Apply(out) ==
  /\ db' = out.db
  /\ session_state' = out.session_state
  /\ _model' = out.cache
  /\ page' = out.page
  /\ n_inserted' = n_inserted + out.inserted

Init ==
  /\ db = EmptyDb
  /\ session_state = << >>
  /\ model_file \in {None, Some(Trained)}
  /\ _model = None
  /\ now = 0
  /\ tie_up \in BOOLEAN
  /\ users = USERS
  /\ conns = IdleConns
  /\ reserved = None
  /\ page = BlankPage
  /\ n_inserted = 0
  /\ probe = None

\* "Sign In" pressed with a user name and a password typed
SignIn ==
  \E u \in TypedUsernames, p \in TypedPasswords :
    /\ Apply(ScriptRun([kind |-> "sign_in", username |-> u, password |-> p],
                       "All", now))
    \* check_credentials is called when the login form is what was shown
    /\ users' = IF Authenticated(session_state) THEN users
                ELSE check_credentials(users, u, p).users
    /\ UNCHANGED << model_file, now, tie_up, conns, reserved, probe >>

\* "Sign Out" pressed
SignOut ==
  /\ Apply(ScriptRun([kind |-> "sign_out"], "All", now))
  /\ UNCHANGED << model_file, now, tie_up, conns, reserved, users, probe >>

\* The selection of the history tab's selectbox: Streamlit keeps a widget's
\* value from run to run while the widget is rendered, and starts it at its
\* first option.
risk_filter_widget ==
  IF page.history # None THEN page.history[1].filter ELSE "All"

\* "Evaluate Loan Application" pressed; dt ticks have passed since the clock
\* was last read.  The event is not restricted to a session that is signed
\* in: the gate is require_auth in the script, not the action's guard.
Evaluate ==
  \E form \in FormInputs, dt \in Elapsed, fault \in StorageFaults :
    /\ Len(db.applications) < MaxRecords
    /\ LET out == ScriptRun([kind |-> "evaluate", form |-> form,
                             fault |-> fault],
                            risk_filter_widget, now + dt)
       IN  /\ Apply(out)
           \* insert_application is where the clock is read; a reading
           \* that is stored nowhere is not kept
           /\ now' = IF out.inserted = 1 THEN now + dt ELSE now
    /\ UNCHANGED << model_file, tie_up, conns, reserved, users, probe >>

\* any other rerun: the page is opened or reloaded, or an Admin selects a
\* filter in the history tab
View ==
  \E f \in Filters :
    /\ f = risk_filter_widget \/ page.history # None
    /\ Apply(ScriptRun([kind |-> "view"], f, now))
    /\ UNCHANGED << model_file, now, tie_up, conns, reserved, users, probe >>

\* train_model.py is run: joblib.dump(model, MODEL_PATH)
TrainModel ==
  /\ model_file' = Some(Trained)
  /\ UNCHANGED << db, session_state, _model, now, tie_up, conns, reserved, users, page, n_inserted,
                  probe >>

Next == SignIn \/ SignOut \/ Evaluate \/ View \/ TrainModel

Spec == Init /\ [][Next]_vars

(***************************************************************************)
(* The scoring functions on their own: every score of [0,100] goes through *)
(* _score_to_category, every probability of ProbGrid through predict.      *)
(***************************************************************************)
Scores == 0..1000

InitScoring ==
  /\ db = EmptyDb
  /\ session_state = << >>
  /\ model_file = Some(Trained)
  /\ _model = None
  /\ now = 0
  /\ tie_up = FALSE
  /\ users = USERS
  /\ conns = IdleConns
  /\ reserved = None
  /\ page = BlankPage
  /\ n_inserted = 0
  /\ probe = None

CallScoreToCategory ==
  \E score \in Scores :
    /\ probe' = Some([op |-> "_score_to_category", in |-> score,
                      out |-> _score_to_category(score)])
    /\ UNCHANGED << db, session_state, model_file, _model, now, tie_up, conns, reserved, users, page,
                    n_inserted >>

\* predict(request) with a classifier that returns prob
CallPredict ==
  \E prob \in ProbGrid, form \in FormInputs :
    LET classifier == [kind |-> "constant", prob |-> prob]
        loaded == _load_model(_model, Some(classifier))
        req    == PredictRequest(form.farm_size, form.soil_score,
                                 form.rainfall, form.previous_loans,
                                 form.yield_amount)
    IN  /\ probe' = Some([op |-> "predict", in |-> prob, request |-> req,
                          out |-> predict(loaded.cache[1], req)])
        /\ UNCHANGED << db, session_state, model_file, _model, now, tie_up, conns, reserved, users,
                        page, n_inserted >>

NextScoring == CallScoreToCategory \/ CallPredict

SpecScoring == InitScoring /\ [][NextScoring]_vars

(***************************************************************************)
(* api_simulation.py on its own: predict called again and again in one     *)
(* process, while the artifact at MODEL_PATH is written, rewritten, lost   *)
(* or damaged between the calls.                                           *)
(***************************************************************************)
\* The classifier of a later run of train_model.py.
Retrained == [kind |-> "constant", prob |-> 2500]

Artifacts == {Trained, Retrained}

\* Requests with values outside the ranges the form allows: a negative
\* rainfall, a soil_score above 100, a negative farm_size and loan count,
\* a yield above 50 tonnes.
OutOfRangeInputs ==
  { [applicant_name |-> "", farm_size |-> 50, soil_score |-> 65,
     rainfall |-> -100, previous_loans |-> 1, yield_amount |-> 35],
    [applicant_name |-> "", farm_size |-> 50, soil_score |-> 150,
     rainfall |-> 7500, previous_loans |-> 1, yield_amount |-> 35],
    [applicant_name |-> "", farm_size |-> -10, soil_score |-> 65,
     rainfall |-> 7500, previous_loans |-> -1, yield_amount |-> 35],
    [applicant_name |-> "", farm_size |-> 50, soil_score |-> 65,
     rainfall |-> 7500, previous_loans |-> 1, yield_amount |-> 9000] }

InitPredict ==
  /\ db = EmptyDb
  /\ session_state = << >>
  /\ model_file \in {None, Some(Unreadable), Some(Trained)}
  /\ _model = None
  /\ now = 0
  /\ tie_up = FALSE
  /\ users = USERS
  /\ conns = IdleConns
  /\ reserved = None
  /\ page = BlankPage
  /\ n_inserted = 0
  /\ probe = None

\* predict(request); the probe keeps the attribute and the artifact the call
\* found.
CallPredictRequest ==
  \E form \in FormInputs \cup OutOfRangeInputs :
    LET req    == PredictRequest(form.farm_size, form.soil_score,
                                 form.rainfall, form.previous_loans,
                                 form.yield_amount)
        called == predict_request(_model, model_file, req)
    IN  /\ _model' = called.cache
        /\ probe' = Some([op |-> "predict_request", in |-> req,
                          cached |-> _model, file |-> model_file,
                          raised |-> called.raised, reads |-> called.reads,
                          X |-> called.X, out |-> called.response])
        /\ UNCHANGED << db, session_state, model_file, now, tie_up, conns, reserved, users, page,
                        n_inserted >>

\* train_model.py is run: joblib.dump(model, MODEL_PATH)
WriteArtifact ==
  \E classifier \in Artifacts :
    /\ model_file' = Some(classifier)
    /\ probe' = Some([op |-> "joblib.dump", in |-> classifier, out |-> None])
    /\ UNCHANGED << db, session_state, _model, now, tie_up, conns, reserved, users, page,
                    n_inserted >>

\* The file at MODEL_PATH is deleted, or overwritten with something that is
\* no pickle.
LoseArtifact ==
  \E file \in {None, Some(Unreadable)} :
    /\ model_file' = file
    /\ probe' = Some([op |-> "lose artifact", in |-> file, out |-> None])
    /\ UNCHANGED << db, session_state, _model, now, tie_up, conns, reserved, users, page,
                    n_inserted >>

NextPredict == CallPredictRequest \/ WriteArtifact \/ LoseArtifact

SpecPredict == InitPredict /\ [][NextPredict]_vars

(***************************************************************************)
(* auth.py on its own: check_credentials called with what can be typed     *)
(* into the login form.                                                    *)
(***************************************************************************)
\* User names: keys of USERS as they are, in other case, with whitespace
\* around them or inside them; names that are no key; the empty name.
LoginNames ==
  { << "a", "d", "m", "i", "n" >>,
    Str_admin_typed,
    << "A", "D", "M", "I", "N", " " >>,
    << "\t", "a", "d", "m", "i", "n", "\n" >>,
    << "a", "d", " ", "m", "i", "n" >>,
    << "a", "d", "m", "i", "n", "1" >>,
    Str_officer,
    << "O", "f", "f", "i", "c", "e", "r" >>,
    << "d", "e", "m", "o" >>,
    << "r", "a", "h", "u", "l" >>,
    << "v", "i", "g", "n", "e", "s", "h" >>,
    Str_guest,
    << " " >>,
    << >> }

\* Passwords: the stored ones, and ones that differ from a stored one in
\* case, by a blank or by a missing end; the empty password.
LoginPasswords ==
  {"admin123", "Admin123", "admin123 ", " admin123", "admin", "officer123",
   "demo", "93477", ""}

InitAuth ==
  /\ db = EmptyDb
  /\ session_state = << >>
  /\ model_file = Some(Trained)
  /\ _model = None
  /\ now = 0
  /\ tie_up = FALSE
  /\ users = USERS
  /\ conns = IdleConns
  /\ reserved = None
  /\ page = BlankPage
  /\ n_inserted = 0
  /\ probe = None

CallCheckCredentials ==
  \E username \in LoginNames, password \in LoginPasswords :
    LET checked == check_credentials(users, username, password)
    IN  /\ users' = checked.users
        /\ probe' = Some([op |-> "check_credentials",
                          in |-> [username |-> username,
                                  password |-> password],
                          out |-> checked.user])
        /\ UNCHANGED << db, session_state, model_file, _model, now, tie_up, conns, reserved,
                        page, n_inserted >>

NextAuth == CallCheckCredentials

SpecAuth == InitAuth /\ [][NextAuth]_vars

(***************************************************************************)
(* database.py on its own: init_db, insert_application,                    *)
(* fetch_all_applications and get_summary_stats called in any order.  A    *)
(* call before init_db raises "no such table" and changes nothing.         *)
(***************************************************************************)
\* The trust_score and risk_category of the rows inserted: the outcomes of
\* predict for the trained classifier.
Outcomes == {predict(Trained, PredictRequest(f.farm_size, f.soil_score, f.rainfall, f.previous_loans, f.yield_amount)) : f \in FormInputs}

InitDatabase ==
  /\ db = EmptyDb
  /\ session_state = << >>
  /\ model_file = Some(Trained)
  /\ _model = None
  /\ now = 0
  /\ tie_up \in BOOLEAN
  /\ users = USERS
  /\ conns = IdleConns
  /\ reserved = None
  /\ page = BlankPage
  /\ n_inserted = 0
  /\ probe = None

CallInitDb ==
  /\ db' = init_db(db).db
  /\ probe' = Some([op |-> "init_db", in |-> None,
                    raised |-> init_db(db).raised, out |-> None])
  /\ UNCHANGED << session_state, model_file, _model, now, tie_up, conns, reserved, users, page,
                  n_inserted >>

CallInsertApplication ==
  \E o \in Outcomes, dt \in Elapsed, fault \in StorageFaults :
    /\ "applications" \in db.tables
    /\ Len(db.applications) < MaxRows
    /\ LET ins == insert_application(db, "Anonymous", 50, 65, 7500, 1, 35, o.trust_score, o.risk_category, Str_system, now + dt, fault)
       IN  /\ db' = ins.db
           /\ probe' = Some([op |-> "insert_application", in |-> fault,
                             raised |-> ins.raised, out |-> ins.lastrowid])
           \* a reading of the clock that is stored nowhere is not kept
           /\ now' = IF ins.raised THEN now ELSE now + dt
           /\ n_inserted' = IF ins.raised THEN n_inserted
                            ELSE n_inserted + 1
    /\ UNCHANGED << session_state, model_file, _model, tie_up, conns, reserved, users, page >>

CallFetchAllApplications ==
  \E risk_filter \in Filters :
    /\ "applications" \in db.tables
    /\ LET got == fetch_all_applications(db, risk_filter)
       IN  /\ db' = got.db
           /\ probe' = Some([op |-> "fetch_all_applications",
                             in |-> risk_filter, out |-> got.rows])
    /\ UNCHANGED << session_state, model_file, _model, now, tie_up, conns, reserved, users, page,
                    n_inserted >>

CallGetSummaryStats ==
  /\ "applications" \in db.tables
  /\ LET got == get_summary_stats(db, tie_up)
     IN  /\ db' = got.db
         /\ probe' = Some([op |-> "get_summary_stats", in |-> None,
                           out |-> got.stats])
  /\ UNCHANGED << session_state, model_file, _model, now, tie_up, conns, reserved, users, page,
                  n_inserted >>

NextDatabase ==
  \/ CallInitDb
  \/ CallInsertApplication
  \/ CallFetchAllApplications
  \/ CallGetSummaryStats

SpecDatabase == InitDatabase /\ [][NextDatabase]_vars

(***************************************************************************)
(* insert_application called by two sessions at the same time.  Each call  *)
(* opens a connection of its own; the steps of a call are its lines:       *)
(* datetime.now(), sqlite3.connect, conn.execute, conn.commit, and they    *)
(* interleave with the steps of the other session's call.                  *)
(***************************************************************************)
\* The calls of insert_application made in all.
MaxCalls == 3

\* What a session's evaluate handler passes to insert_application.
SessionArgs(s) ==
  IF s = "A"
  THEN [applicant_name |-> "Ramesh", farm_size |-> 50, soil_score |-> 65,
        rainfall |-> 7500, previous_loans |-> 1, yield_amount |-> 35,
        trust_score |-> 769, risk_category |-> "Low Risk",
        officer_id |-> Str_officer]
  ELSE [applicant_name |-> "Sita", farm_size |-> 10, soil_score |-> 30,
        rainfall |-> 3000, previous_loans |-> 4, yield_amount |-> 10,
        trust_score |-> 300, risk_category |-> "High Risk",
        officer_id |-> Str_admin_typed]

\* A database without a write lock: an INSERT never finds it locked.
sqlite_busy_never(lock, s) == FALSE

\* SQLite lets one connection write at a time: the INSERT of session s finds
\* the database locked while another connection's transaction holds the
\* write lock.
sqlite_busy(lock, s) == lock # None /\ lock # Some(s)

InitConcurrent ==
  /\ db = init_db(EmptyDb).db
  /\ session_state = << >>
  /\ model_file = Some(Trained)
  /\ _model = None
  /\ now = 0
  /\ tie_up = FALSE
  /\ users = USERS
  /\ conns = IdleConns
  /\ reserved = None
  /\ page = BlankPage
  /\ n_inserted = 0
  /\ probe = None

\* insert_application is entered: ts = datetime.now().strftime(...)
ConnCall(s) ==
  \E dt \in Elapsed :
    /\ conns[s].pc \in {"idle", "returned", "raised"}
    /\ conns["A"].calls + conns["B"].calls < MaxCalls
    /\ now' = now + dt
    /\ conns' = [conns EXCEPT ![s].pc = "connect", ![s].clock = now + dt,
                              ![s].txn = None, ![s].out = None,
                              ![s].calls = @ + 1]
    /\ UNCHANGED << db, session_state, model_file, _model, tie_up, users,
                    reserved, page, n_inserted, probe >>

\* with _get_conn() as conn: sqlite3.connect opens the file, or raises
ConnConnect(s) ==
  \E ok \in BOOLEAN :
    /\ conns[s].pc = "connect"
    /\ conns' = [conns EXCEPT ![s].pc = IF ok THEN "execute" ELSE "raised"]
    /\ UNCHANGED << db, session_state, model_file, _model, now, tie_up, users,
                    reserved, page, n_inserted, probe >>

\* conn.execute(sql, ...): BEGIN and the INSERT, which takes the write lock
\* and writes the row in the connection's transaction.  While another
\* connection holds the lock the call waits; it raises "database is locked"
\* when the wait times out.
ConnExecute(s) ==
  /\ conns[s].pc = "execute"
  /\ IF sqlite_busy(reserved, s)
     THEN /\ conns' = [conns EXCEPT ![s].pc = "raised"]
          /\ UNCHANGED reserved
     ELSE LET a   == SessionArgs(s)
              ins == insert_application(db, a.applicant_name, a.farm_size, a.soil_score, a.rainfall, a.previous_loans, a.yield_amount, a.trust_score, a.risk_category, a.officer_id, conns[s].clock, "none")
          IN  /\ conns' = [conns EXCEPT ![s].pc = "commit",
                                        ![s].txn = Some(ins)]
              /\ reserved' = Some(s)
  /\ UNCHANGED << db, session_state, model_file, _model, now, tie_up, users,
                  page, n_inserted, probe >>

\* conn.commit() publishes the transaction and the call returns
\* cur.lastrowid; or it raises, and `with conn` rolls the transaction back.
\* Either way the write lock is given up.
ConnCommit(s) ==
  \E ok \in BOOLEAN :
    /\ conns[s].pc = "commit"
    /\ reserved' = None
    /\ IF ok
       THEN /\ db' = conns[s].txn[1].db
            /\ conns' = [conns EXCEPT ![s].pc = "returned", ![s].txn = None,
                                      ![s].out = conns[s].txn[1].lastrowid,
                                      ![s].done = @ + 1]
            /\ n_inserted' = n_inserted + 1
       ELSE /\ conns' = [conns EXCEPT ![s].pc = "raised", ![s].txn = None]
            /\ UNCHANGED << db, n_inserted >>
    /\ UNCHANGED << session_state, model_file, _model, now, tie_up, users,
                    page, probe >>

NextConcurrent ==
  \E s \in Sessions :
    ConnCall(s) \/ ConnConnect(s) \/ ConnExecute(s) \/ ConnCommit(s)

SpecConcurrent == InitConcurrent /\ [][NextConcurrent]_vars

\* The last call, when it was a call of op.
Called(op) == probe # None /\ probe[1].op = op

(***************************************************************************)
(* Properties of the scoring pipeline.                                     *)
(***************************************************************************)
\* C1: _score_to_category maps every score of [0,100] to exactly one tier:
\* Low Risk iff score >= 70, Moderate Risk iff 50 <= score < 70, High Risk
\* iff 30 <= score < 50, Very High Risk iff score < 30; 70, 50 and 30 belong
\* to the upper tier, 69.9, 49.9 and 29.9 to the lower.
C1_TierPartition ==
  Called("_score_to_category") =>
    LET score == probe[1].in
        tier  == probe[1].out
    IN  /\ tier \in RiskCategories
        /\ (tier = "Low Risk") <=> (score >= 700)
        /\ (tier = "Moderate Risk") <=> (500 <= score /\ score < 700)
        /\ (tier = "High Risk") <=> (300 <= score /\ score < 500)
        /\ (tier = "Very High Risk") <=> (score < 300)
        /\ (score = 700 => tier = "Low Risk")
        /\ (score = 699 => tier = "Moderate Risk")
        /\ (score = 500 => tier = "Moderate Risk")
        /\ (score = 499 => tier = "High Risk")
        /\ (score = 300 => tier = "High Risk")
        /\ (score = 299 => tier = "Very High Risk")

\* The score on a tier's lower edge has been classified.
C1_Witness ==
  /\ Called("_score_to_category")
  /\ probe[1].in = 500
  /\ probe[1].out = "Moderate Risk"

\* C2: in every response of predict, approved holds exactly when the
\* risk_category is Low Risk or Moderate Risk, and exactly when the
\* trust_score is at least 50.
C2_ApprovedIffTierIffScore ==
  Called("predict") =>
    LET r == probe[1].out
    IN  /\ r.approved \in BOOLEAN
        /\ r.approved <=> (r.risk_category \in {"Low Risk", "Moderate Risk"})
        /\ r.approved <=> (r.trust_score >= 500)

\* predict has answered with the score 50.0, the edge of approval.
C2_Witness ==
  /\ Called("predict")
  /\ probe[1].out.trust_score = 500
  /\ probe[1].out.approved

(***************************************************************************)
(* Properties of the application store.                                    *)
(***************************************************************************)
\* C3: in every reachable state every stored record's risk_category is the
\* tier the thresholds assign to its trust_score.
C3_StoredTierMatchesScore ==
  \A i \in DOMAIN db.applications :
    LET r == db.applications[i]
    IN  /\ (r.trust_score >= 700) <=> (r.risk_category = "Low Risk")
        /\ (500 <= r.trust_score /\ r.trust_score < 700)
             <=> (r.risk_category = "Moderate Risk")
        /\ (300 <= r.trust_score /\ r.trust_score < 500)
             <=> (r.risk_category = "High Risk")
        /\ (r.trust_score < 300) <=> (r.risk_category = "Very High Risk")

\* Two evaluations are stored, one with a score on a tier's lower edge.
C3_Witness ==
  /\ Len(db.applications) = 2
  /\ db.applications[1].trust_score = 500
  /\ db.applications[1].risk_category = "Moderate Risk"
  /\ db.applications[2].trust_score = 299

\* C4: the store is append-only: whatever init_db, insert_application,
\* fetch_all_applications or get_summary_stats does, every record stored
\* before the call is stored after it, at the same place and with the same
\* id and fields.
C4_AppendOnly ==
  [][\A i \in DOMAIN db.applications :
       /\ i \in DOMAIN db'.applications
       /\ db'.applications[i] = db.applications[i]]_vars

\* init_db has been called on a table that holds records.
C4_Witness ==
  /\ Called("init_db")
  /\ Len(db.applications) >= 2

RECURSIVE SumOver(_, _)
SumOver(f, S) ==
  IF S = {} THEN 0
  ELSE LET x == CHOOSE y \in S : TRUE IN f[x] + SumOver(f, S \ {x})

\* C5: after N insert_application calls on an initially empty store,
\* get_summary_stats returns total = N, approved + rejected = N and a
\* distribution whose counts sum to N.
C5_SummaryCountsAllInserts ==
  Called("get_summary_stats") =>
    LET st == probe[1].out
    IN  /\ st.total = n_inserted
        /\ st.approved + st.rejected = n_inserted
        /\ SumOver(st.distribution, DOMAIN st.distribution) = n_inserted

\* get_summary_stats has been called after more than one insert.
C5_Witness ==
  /\ Called("get_summary_stats")
  /\ n_inserted >= 2
  /\ probe[1].out.total >= 2

\* The stored records of category c.
RecordsOf(c) ==
  {i \in DOMAIN db.applications : db.applications[i].risk_category = c}

\* C6: get_summary_stats returns approved = the number of stored records of
\* category Low Risk or Moderate Risk, rejected = total - approved >= 0, and
\* a distribution whose keys are exactly the categories that occur in the
\* store, each with the number of its records.
C6_SummaryApprovedAndDistribution ==
  Called("get_summary_stats") =>
    LET st == probe[1].out
    IN  /\ st.approved = Cardinality(RecordsOf("Low Risk"))
                         + Cardinality(RecordsOf("Moderate Risk"))
        /\ st.rejected = st.total - st.approved
        /\ st.rejected >= 0
        /\ DOMAIN st.distribution = {c \in RiskCategories : RecordsOf(c) # {}}
        /\ \A c \in DOMAIN st.distribution :
             st.distribution[c] = Cardinality(RecordsOf(c))

\* The summary of a store with approved and rejected records, and a
\* category that does not occur.
C6_Witness ==
  /\ Called("get_summary_stats")
  /\ probe[1].out.approved >= 1
  /\ probe[1].out.rejected >= 1
  /\ "Moderate Risk" \in DOMAIN probe[1].out.distribution
  /\ "High Risk" \notin DOMAIN probe[1].out.distribution

\* C7: get_summary_stats returns as avg_score the mean trust_score of the
\* stored records rounded to one decimal (no tenth is nearer to the mean),
\* and 0 when the store holds no record.
C7_AvgScoreIsRoundedMean ==
  Called("get_summary_stats") =>
    LET st  == probe[1].out
        n   == Len(db.applications)
        sum == SumTrustScore(db.applications)
        d   == st.avg_score * n - sum
    IN  IF n = 0 THEN st.avg_score = 0
        ELSE /\ 2 * d <= n
             /\ 2 * d >= 0 - n

\* The summary of three records whose mean is not a whole tenth and rounds
\* upwards.
C7_Witness ==
  /\ Called("get_summary_stats")
  /\ Len(db.applications) = 3
  /\ 2 * (SumTrustScore(db.applications) % 3) > 3
  /\ probe[1].out.avg_score * 3 > SumTrustScore(db.applications)

\* The stored timestamps grow strictly with the order of insertion.
IncreasingTimestamps ==
  \A i, j \in DOMAIN db.applications :
    i < j => db.applications[i].timestamp < db.applications[j].timestamp

\* C8: fetch_all_applications returns the records newest first: in every
\* result, filtered or not, a record's timestamp is at least that of the
\* record after it; and records inserted at increasing timestamps come in
\* the reverse of their insertion order.
C8_NewestFirst ==
  Called("fetch_all_applications") =>
    LET rows == probe[1].out
    IN  /\ \A i \in 1..(Len(rows) - 1) :
             rows[i].timestamp >= rows[i + 1].timestamp
        /\ IncreasingTimestamps =>
             \A i \in 1..(Len(rows) - 1) : rows[i].id > rows[i + 1].id
        /\ (IncreasingTimestamps /\ probe[1].in = "All") =>
             /\ Len(rows) = Len(db.applications)
             /\ \A i \in 1..Len(rows) :
                  rows[i] = db.applications[Len(rows) + 1 - i]

\* Three records inserted in three different seconds have been listed.
C8_Witness ==
  /\ Called("fetch_all_applications")
  /\ probe[1].in = "All"
  /\ Len(probe[1].out) = 3
  /\ IncreasingTimestamps
  /\ probe[1].out[1].id = 3

\* C9: fetch_all_applications(c) returns exactly the stored records whose
\* risk_category is c, each once, and the empty list when there is none;
\* fetch_all_applications("All") returns every stored record.
C9_FilterIsExact ==
  Called("fetch_all_applications") =>
    LET rows     == probe[1].out
        c        == probe[1].in
        returned == {rows[i] : i \in DOMAIN rows}
        stored   == {db.applications[i] : i \in DOMAIN db.applications}
    IN  /\ Cardinality(returned) = Len(rows)
        /\ IF c = "All" THEN returned = stored
           ELSE returned = {r \in stored : r.risk_category = c}

\* A filtered list that keeps some of the stored records and leaves out
\* others.
C9_Witness ==
  /\ Called("fetch_all_applications")
  /\ probe[1].in = "Low Risk"
  /\ Len(probe[1].out) = 2
  /\ Len(db.applications) = 3

\* C10: fetch_all_applications and get_summary_stats leave the database as
\* it is, and a call of fetch_all_applications that follows a call with the
\* same filter, with no insert between them, returns the same list again.
C10_ReadOnlyNoCursor ==
  [][/\ (probe' # None
         /\ probe'[1].op \in {"fetch_all_applications", "get_summary_stats"})
          => db' = db
     /\ (Called("fetch_all_applications")
         /\ probe' # None
         /\ probe'[1].op = "fetch_all_applications"
         /\ probe'[1].in = probe[1].in)
          => probe'[1].out = probe[1].out]_vars

\* A list of several records has been returned: a second call has something
\* to repeat.
C10_Witness ==
  /\ Called("fetch_all_applications")
  /\ probe[1].in = "Moderate Risk"
  /\ Len(probe[1].out) >= 2

\* The last call was an insert_application that returned.
Inserted == Called("insert_application") /\ ~probe[1].raised

\* C11: every insert_application that succeeds returns the id of the record
\* it created; the ids grow strictly in the order of insertion, so that id
\* is greater than the id of every record inserted before, and no two
\* records share an id.
C11_IdsIncreaseAndAreReturned ==
  LET rows == db.applications
  IN  /\ \A i, j \in DOMAIN rows : i < j => rows[i].id < rows[j].id
      /\ \A i, j \in DOMAIN rows : rows[i].id = rows[j].id => i = j
      /\ Inserted =>
           /\ probe[1].out = Some(rows[Len(rows)].id)
           /\ \A i \in 1..(Len(rows) - 1) : rows[i].id < probe[1].out[1]

\* The third insert has returned the id 3, after two records with smaller
\* ids.
C11_Witness ==
  /\ Inserted
  /\ Len(db.applications) = 3
  /\ probe[1].out = Some(3)
  /\ db.applications[1].id = 1
  /\ db.applications[2].id = 2

ApplicationColumns ==
  {"id", "applicant_name", "farm_size", "soil_score", "rainfall",
   "previous_loans", "yield_amount", "trust_score", "risk_category",
   "officer_id", "timestamp"}

\* C12: insert_application is all-or-nothing.  A call that returns has
\* added one record with all its columns, the timestamp of the call and the
\* id returned; a call during which the storage fails raises, returns
\* nothing and leaves the database as it was.  Every record in the table,
\* and so every record fetch_all_applications lists or get_summary_stats
\* counts, is complete.
C12_InsertAllOrNothing ==
  [][/\ (probe' # None /\ probe'[1].op = "insert_application") =>
          LET rows == db'.applications
          IN  IF probe'[1].in = "none"
              THEN /\ ~probe'[1].raised
                   /\ Len(rows) = Len(db.applications) + 1
                   /\ SubSeq(rows, 1, Len(rows) - 1) = db.applications
                   /\ DOMAIN rows[Len(rows)] = ApplicationColumns
                   /\ probe'[1].out = Some(rows[Len(rows)].id)
                   /\ rows[Len(rows)].timestamp = strftime(now')
                   /\ n_inserted' = n_inserted + 1
              ELSE /\ probe'[1].raised
                   /\ probe'[1].out = None
                   /\ db' = db
                   /\ n_inserted' = n_inserted
     /\ \A i \in DOMAIN db'.applications :
          DOMAIN db'.applications[i] = ApplicationColumns
     /\ (probe' # None /\ probe'[1].op = "fetch_all_applications") =>
          \A i \in DOMAIN probe'[1].out :
            DOMAIN probe'[1].out[i] = ApplicationColumns
     /\ (probe' # None /\ probe'[1].op = "get_summary_stats") =>
          probe'[1].out.total = n_inserted']_vars

\* conn.commit() has raised during an insert into a table that holds two
\* records, and the table still holds the two.
C12_Witness ==
  /\ Called("insert_application")
  /\ probe[1].in = "commit"
  /\ probe[1].raised
  /\ Len(db.applications) = 2
  /\ n_inserted = 2

(***************************************************************************)
(* Properties of predict and of the classifier artifact.                   *)
(***************************************************************************)
\* C13: when predict has to load the classifier (none is cached) and the
\* artifact is missing or unreadable, predict raises at the load and
\* returns no response: no trust score, tier or approval comes from a
\* fallback; joblib.load is tried once and no more, and nothing is cached.
C13_MissingArtifactFailsFast ==
  (/\ Called("predict_request")
   /\ probe[1].cached = None
   /\ (probe[1].file = None \/ probe[1].file = Some(Unreadable)))
    => /\ probe[1].raised
       /\ probe[1].out = None
       /\ probe[1].X = None
       /\ probe[1].reads = 1
       /\ _model = None

\* predict has been called with no artifact at MODEL_PATH and has raised.
C13_Witness ==
  /\ Called("predict_request")
  /\ probe[1].cached = None
  /\ probe[1].file = None
  /\ probe[1].raised

\* C14: the artifact is loaded once and cached for the life of the
\* process.  Once a load has succeeded no predict reads the file again;
\* every later predict answers with the cached classifier, whatever the
\* file holds by then; and no step, a predict or a change of the file,
\* replaces the cached classifier.
C14_LoadedOnceAndCached ==
  [][_model # None =>
       /\ _model' = _model
       /\ (probe' # None /\ probe'[1].op = "predict_request") =>
            /\ probe'[1].reads = 0
            /\ ~probe'[1].raised
            /\ probe'[1].out = Some(predict(_model[1], probe'[1].in))]_vars

\* predict has answered from the cache while MODEL_PATH held another
\* classifier than the cached one.
C14_Witness ==
  /\ Called("predict_request")
  /\ probe[1].cached = Some(Trained)
  /\ probe[1].file = Some(Retrained)
  /\ probe[1].reads = 0
  /\ _model = Some(Trained)
  /\ probe[1].out # None

\* C15: the trust score round(100 / (1 + exp(-10 * (p - 0.5))), 1) does not
\* decrease when p grows over [0,1], lies within [0,100], is 50.0 at
\* p = 0.5, and is within one point of 0 at p = 0 and of 100 at p = 1.
C15_SCurveMonotoneAndBounded ==
  Called("predict") =>
    LET p     == probe[1].in
        score == probe[1].out.trust_score
    IN  /\ 0 <= score /\ score <= 1000
        /\ \A q \in ProbGrid :
             /\ q <= p => trust_score_of(q) <= score
             /\ q >= p => trust_score_of(q) >= score
        /\ (p = 5000 => score = 500)
        /\ (p = 0 => score <= 10)
        /\ (p = 10000 => score >= 990)

\* predict has scored the probability 1: 99.3.
C15_Witness ==
  /\ Called("predict")
  /\ probe[1].in = 10000
  /\ probe[1].out.trust_score = 993

\* C16: the examples of the pipeline.  With a classifier that returns
\* p = 0.62 predict answers trust_score 76.9, 'Low Risk' and approved; with
\* p = 0.5 it answers trust_score 50.0, 'Moderate Risk' and approved.
C16_PipelineExamples ==
  Called("predict") =>
    LET r == probe[1].out
    IN  /\ probe[1].in = 6200 =>
             /\ r.trust_score = 769
             /\ r.risk_category = "Low Risk"
             /\ r.approved = TRUE
        /\ probe[1].in = 5000 =>
             /\ r.trust_score = 500
             /\ r.risk_category = "Moderate Risk"
             /\ r.approved = TRUE

\* The request of the example (5.0 acres, soil 65, 750.0 mm, 1 loan, 3.5
\* tonnes) has gone through a classifier that returns 0.62.
C16_Witness ==
  /\ Called("predict")
  /\ probe[1].in = 6200
  /\ probe[1].request = PredictRequest(50, 65, 7500, 1, 35)
  /\ probe[1].out.risk_category = "Low Risk"

\* The values of a request, in the order predict hands them on.
ValuesOf(request) ==
  << request.farm_size, request.soil_score, request.rainfall,
     request.previous_loans, request.yield_amount >>

\* A request with a value outside its declared range.
OutOfRange(request) ==
  \/ request.farm_size < 1 \/ request.farm_size > 2000
  \/ request.soil_score < 0 \/ request.soil_score > 100
  \/ request.rainfall < 0
  \/ request.previous_loans < 0 \/ request.previous_loans > 20
  \/ request.yield_amount < 1 \/ request.yield_amount > 500

\* C17: predict neither validates nor clamps.  Whatever the request, also
\* one with a value outside its declared range, predict raises only when
\* the model cannot be loaded; otherwise the array it hands to the
\* classifier holds the five values of the request unchanged, and it
\* returns a complete response for the probability the classifier gives
\* for them.
C17_NoInputValidation ==
  Called("predict_request") =>
    LET request == probe[1].in
        loads   == probe[1].cached # None \/ ~LoadRaises(probe[1].file)
    IN  /\ probe[1].raised <=> ~loads
        /\ loads =>
             /\ probe[1].X = Some(ValuesOf(request))
             /\ probe[1].out # None
             /\ probe[1].out[1] =
                  predict_response(predict_proba(_model[1], ValuesOf(request)))
             /\ probe[1].out[1].trust_score \in 0..1000
             /\ probe[1].out[1].risk_category \in RiskCategories
             /\ probe[1].out[1].model_version = MODEL_VERSION

\* predict has answered a request with a negative rainfall.
C17_Witness ==
  /\ Called("predict_request")
  /\ OutOfRange(probe[1].in)
  /\ probe[1].in.rainfall < 0
  /\ ~probe[1].raised
  /\ probe[1].X = Some(<< 50, 65, -100, 1, 35 >>)
  /\ probe[1].out # None

\* C18: init_db is idempotent.  Called at any point between inserts and
\* queries it never raises, leaves every record and the id sequence as they
\* are, leaves the table in place (creating it only when it is missing),
\* and a second call right after it changes nothing at all.
C18_InitDbIdempotent ==
  [][(probe' # None /\ probe'[1].op = "init_db") =>
       /\ ~probe'[1].raised
       /\ db'.applications = db.applications
       /\ db'.sqlite_sequence = db.sqlite_sequence
       /\ db'.tables = db.tables \cup {"applications"}
       /\ ("applications" \in db.tables => db' = db)
       /\ ~init_db(db').raised
       /\ init_db(db').db = db']_vars

\* init_db has been called, without raising, after three inserts.
C18_Witness ==
  /\ Called("init_db")
  /\ ~probe[1].raised
  /\ n_inserted = 3
  /\ Len(db.applications) = 3

(***************************************************************************)
(* Properties of the login.                                                *)
(***************************************************************************)
\* c and k are the same character, or c is the capital of k.
FoldsTo(c, k) ==
  \/ c = k /\ \A n \in DOMAIN UpperCase : UpperCase[n] # c
  \/ \E n \in DOMAIN UpperCase : UpperCase[n] = c /\ LowerCase[n] = k

\* key is what is left of username when the whitespace around it is
\* dropped and its capitals are made small.
NamesKey(username, key) ==
  \E i \in 1..(Len(username) + 1) :
    LET j == i + Len(key) - 1
    IN  /\ j <= Len(username)
        /\ \A t \in 1..(i - 1) : username[t] \in Whitespace
        /\ \A t \in (j + 1)..Len(username) : username[t] \in Whitespace
        /\ \A t \in 1..Len(key) : FoldsTo(username[i + t - 1], key[t])
        /\ key = << >> \/ (key[1] \notin Whitespace
                           /\ key[Len(key)] \notin Whitespace)

\* C19: check_credentials returns the user's entry exactly when the
\* username, lower-cased and without the whitespace around it, is a key of
\* the table and the password is that user's stored password, character for
\* character; for an unknown user, a wrong password or an empty password it
\* returns None.  The table is the same after the call.
C19_CheckCredentialsExact ==
  Called("check_credentials") =>
    LET username == probe[1].in.username
        password == probe[1].in.password
        matching == {key \in DOMAIN USERS :
                       /\ NamesKey(username, key)
                       /\ USERS[key].password = password}
    IN  /\ \A key \in matching : probe[1].out = Some(USERS[key])
        /\ matching = {} => probe[1].out = None
        /\ password = "" => probe[1].out = None
        /\ users = USERS

\* " Admin" with admin's password has been let in as the Admin.
C19_Witness ==
  /\ Called("check_credentials")
  /\ probe[1].in = [username |-> Str_admin_typed, password |-> "admin123"]
  /\ probe[1].out # None
  /\ probe[1].out[1].role = "Admin"

\* The page shows nothing that comes from predict or from the store.
ShowsNoData(pg) ==
  /\ pg.result = None
  /\ pg.explain = None
  /\ pg.csv = None
  /\ pg.stats = None
  /\ pg.recent = None
  /\ pg.history = None

\* C20: the authentication gate holds in every script run.  A run in a
\* session that is not marked authenticated, and is not signed in by this
\* run, ends at the login screen: it shows nothing of predict or of the
\* store, loads no model, inserts nothing and leaves the session as it was.
\* A session becomes authenticated only in a run whose typed user name and
\* password check_credentials answered with a user, and that user and user
\* name are what the session then holds; that run evaluates and inserts
\* nothing either.  (model_file' = model_file tells the runs of the page
\* from a run of train_model.py.)
C20_AuthGate ==
  [][(model_file' = model_file /\ ~Authenticated(session_state)) =>
       /\ db'.applications = db.applications
       /\ n_inserted' = n_inserted
       /\ _model' = _model
       /\ page'.result = None
       /\ ~Authenticated(session_state') =>
            /\ page'.screen = "login"
            /\ ShowsNoData(page')
            /\ session_state' = session_state
       /\ Authenticated(session_state') =>
            \E username \in TypedUsernames, password \in TypedPasswords :
              LET checked == check_credentials(users, username, password)
              IN  /\ checked.user # None
                  /\ session_state'["user"] = checked.user[1]
                  /\ session_state'["username"] = username]_vars

\* A sign-in has just been refused in a session that is signed out, with
\* two records in the store and the last result still in the session.
C20_Witness ==
  /\ ~Authenticated(session_state)
  /\ page.screen = "login"
  /\ page.login_error
  /\ ShowsNoData(page)
  /\ Len(db.applications) = 2
  /\ "last_result" \in DOMAIN session_state

(***************************************************************************)
(* Properties of the page: evaluation, logout, roles.                      *)
(***************************************************************************)
\* C21: write after score.  A press of Evaluate adds at most one record.  A
\* record is added only in a run in which predict returned: its trust_score
\* and risk_category are those of the response the run shows, and that
\* response is predict's answer for the record's five input values, which
\* are also the inputs kept as last_result.  A run that shows a response
\* has added its record; a run in which predict raised (no model could be
\* loaded) has added nothing.
C21_WriteAfterScore ==
  [][model_file' = model_file =>
       LET rows == db'.applications
           row  == rows[Len(rows)]
       IN  /\ Len(rows) \in {Len(db.applications), Len(db.applications) + 1}
           /\ Len(rows) = Len(db.applications) + 1 =>
                /\ SubSeq(rows, 1, Len(rows) - 1) = db.applications
                /\ n_inserted' = n_inserted + 1
                /\ _model' # None
                /\ page'.result # None
                /\ page'.result[1] =
                     predict(_model'[1],
                             PredictRequest(row.farm_size, row.soil_score,
                                            row.rainfall, row.previous_loans,
                                            row.yield_amount))
                /\ row.trust_score = page'.result[1].trust_score
                /\ row.risk_category = page'.result[1].risk_category
                /\ session_state'["last_result"].farm_size = row.farm_size
                /\ session_state'["last_result"].soil_score = row.soil_score
                /\ session_state'["last_result"].rainfall = row.rainfall
                /\ session_state'["last_result"].previous_loans
                     = row.previous_loans
                /\ session_state'["last_result"].yield_amount
                     = row.yield_amount
           /\ page'.result # None => Len(rows) = Len(db.applications) + 1
           /\ (page'.screen = "exception" /\ _model' = None) => db' = db]_vars

\* A second evaluation has been scored 76.9 and stored with that score.
C21_Witness ==
  /\ page.result # None
  /\ page.result[1].trust_score = 769
  /\ Len(db.applications) = 2
  /\ db.applications[2].trust_score = 769
  /\ db.applications[2].risk_category = "Low Risk"
  /\ db.applications[2].rainfall = 7500

\* The stored records that session s passed to insert_application.
RecordsBy(s) ==
  {i \in DOMAIN db.applications :
     db.applications[i].officer_id = SessionArgs(s).officer_id}

\* C22: inserts are serialized, one transaction per insert.  Whatever the
\* interleaving of two sessions' calls, each call adds its record as a
\* whole or adds nothing: the table holds one record per call that
\* returned, session by session; every record is complete and carries the
\* values of one session only; a call that returned has returned the id of
\* a record of its own; no two records share an id.
C22_ConcurrentInsertsSerialized ==
  LET rows == db.applications
  IN  /\ Len(rows) = conns["A"].done + conns["B"].done
      /\ \A s \in Sessions :
           /\ Cardinality(RecordsBy(s)) = conns[s].done
           /\ conns[s].pc = "returned" =>
                \E i \in RecordsBy(s) :
                  /\ conns[s].out = Some(rows[i].id)
                  /\ rows[i].timestamp = strftime(conns[s].clock)
           /\ conns[s].pc = "raised" => conns[s].out = None
      /\ \A i \in DOMAIN rows :
           /\ DOMAIN rows[i] = ApplicationColumns
           /\ \E s \in Sessions :
                \A c \in DOMAIN SessionArgs(s) : rows[i][c] = SessionArgs(s)[c]
      /\ \A i, j \in DOMAIN rows : rows[i].id = rows[j].id => i = j

\* Two calls have overlapped and both have returned: B read the clock
\* before A did, and B's record was committed after A's.
C22_Witness ==
  /\ conns["A"].pc = "returned"
  /\ conns["B"].pc = "returned"
  /\ conns["B"].clock < conns["A"].clock
  /\ conns["A"].out = Some(1)
  /\ conns["B"].out = Some(2)
  /\ Len(db.applications) = 2

IdentityKeys == {"authenticated", "user", "username"}

\* C23: logout clears the session's identity and reruns the script.  The
\* run in which a signed-in session is signed out leaves none of the keys
\* authenticated, user and username in the session and ends at the login
\* screen, which shows nothing of the store or of predict and changes
\* neither; from then on every run ends at that screen, with the three keys
\* still absent, until a run in which check_credentials answers the typed
\* user name and password with a user.
C23_LogoutClearsSession ==
  [][model_file' = model_file =>
       /\ (Authenticated(session_state) /\ ~Authenticated(session_state')) =>
            /\ IdentityKeys \cap DOMAIN session_state' = {}
            /\ page' = LoginPage(FALSE)
            /\ db' = db
            /\ n_inserted' = n_inserted
            /\ _model' = _model
       /\ ~Authenticated(session_state) =>
            \/ /\ IdentityKeys \cap DOMAIN session_state' = {}
               /\ page'.screen = "login"
               /\ ShowsNoData(page')
            \/ /\ Authenticated(session_state')
               /\ page'.screen = "app"
               /\ \E username \in TypedUsernames, password \in TypedPasswords :
                    /\ check_credentials(users, username, password).user
                         = Some(session_state'["user"])
                    /\ session_state'["username"] = username]_vars

\* A session that evaluated an application has been signed out: the login
\* screen, and no identity in the session.
C23_Witness ==
  /\ page = LoginPage(FALSE)
  /\ IdentityKeys \cap DOMAIN session_state = {}
  /\ "last_result" \in DOMAIN session_state
  /\ Len(db.applications) = 1

\* C24: stored records are exposed to Admin users only.  The page of a
\* session whose user is no Admin has called neither get_summary_stats nor
\* fetch_all_applications and offers nothing made from the stored records:
\* no summary figures, no list of recent applications, no history table, no
\* CSV export.
C24_RecordsForAdminOnly ==
  (Authenticated(session_state) /\ session_state["user"].role # "Admin") =>
    /\ page.stats = None
    /\ page.recent = None
    /\ page.history = None
    /\ page.csv = None

\* C25: no evaluation data crosses a logout.  The evaluation a signed-in
\* user is shown as the last result (its inputs, trust score and risk
\* category, from which the explanations and the PDF report are made) is an
\* evaluation that user ran: the store holds it under the user's name.
\* After a logout and the login of another user nothing is shown until that
\* user has evaluated an application.
C25_NoResultAcrossLogout ==
  (Authenticated(session_state) /\ page.explain # None) =>
    \E i \in DOMAIN db.applications :
      LET row == db.applications[i]
          r   == page.explain[1]
      IN  /\ row.officer_id = session_state["username"]
          /\ row.farm_size = r.farm_size
          /\ row.soil_score = r.soil_score
          /\ row.rainfall = r.rainfall
          /\ row.previous_loans = r.previous_loans
          /\ row.yield_amount = r.yield_amount
          /\ row.trust_score = r.trust_score
          /\ row.risk_category = r.risk_category

\* C26: for any sequence of inserts, also one with several inserts within
\* the same second, fetch_all_applications returns the records in the
\* reverse of their insertion order: each record's id is greater than the
\* id of the record after it, and the record inserted last comes first.
C26_ReverseInsertionOrder ==
  Called("fetch_all_applications") =>
    LET rows == probe[1].out
    IN  /\ \A i \in 1..(Len(rows) - 1) : rows[i].id > rows[i + 1].id
        /\ (probe[1].in = "All" /\ rows # << >>) =>
             rows[1] = db.applications[Len(db.applications)]

=============================================================================
